---------------------------- MODULE Spec2Model ----------------------------
(***************************************************************************)
(* Model of libaacs' crypto.c (src/src/libaacs/crypto.c).                  *)
(*                                                                         *)
(* The multi-precision / elliptic-curve part is a scale model: a "byte"    *)
(* of an MPI buffer is a radix-ByteBase digit, a coordinate, scalar or     *)
(* digest is CoordLen such bytes instead of 20, the bus key is BusKeyLen   *)
(* bytes instead of 16, and the curve is a prime-order short Weierstrass   *)
(* curve with a = p - 3 over a small prime field.  The buffer handling of  *)
(* the code (gcry_mpi_scan / gcry_mpi_print / memcpy with their offsets    *)
(* and lengths) is kept as written.  The AES part works on real 8-bit      *)
(* bytes and 16-byte blocks.                                               *)
(***************************************************************************)
EXTENDS Integers, Sequences, FiniteSets, TLC

VARIABLES
    \* crypto_init
    crypto_init_check,  \* the function's static int
    versionOk,          \* what gcry_check_version answers in this process
    pc,                 \* thread -> position inside crypto_init
    ncalls,             \* thread -> calls of crypto_init started
    retval,             \* thread -> value returned by its last call
    setupRuns,          \* times the backend setup section was executed
    \* last library call and what it did
    op,                 \* name of the last entry point that returned
    args,               \* its inputs
    ret,                \* what the caller received from it
    trace,              \* backend primitives it invoked, in order
    live,               \* backend objects allocated and not yet released
    \* caller-owned output buffers
    signature,          \* crypto_aacs_sign's output
    host_key,           \* party -> private scalar buffer
    host_key_point,     \* party -> public point buffer
    bus_key,            \* party -> bus key buffer
    subkeys,            \* crypto_aesg3's three destinations
    cmac                \* crypto_aes_cmac_16's output

vars == <<crypto_init_check, versionOk, pc, ncalls, retval, setupRuns,
          op, args, ret, trace, live,
          signature, host_key, host_key_point, bus_key, subkeys, cmac>>

initVars == <<crypto_init_check, versionOk, pc, ncalls, retval, setupRuns>>
callVars == <<op, args, ret, trace, live>>
bufVars  == <<signature, host_key, host_key_point, bus_key, subkeys, cmac>>

-----------------------------------------------------------------------------
(* Bounds of the model *)

NumThreads == 2
MaxCalls == 2
MaxSigS == 7
MaxScalar == 40

Threads == 1..NumThreads

-----------------------------------------------------------------------------
(* Byte buffers and libgcrypt's unsigned MPI format (GCRYMPI_FMT_USG) *)

ByteBase == 16
CoordLen == 2
BusKeyLen == 1

Byte == 0..(ByteBase - 1)

\* F applied to the value of x, which is computed once
With(x, F(_)) == CHOOSE y \in {F(v) : v \in {x}} : TRUE

\* buf + off, len bytes (off is the C offset, counted from 0)
Bytes(buf, off, len) == SubSeq(buf, off + 1, off + len)

\* memcpy(dst + off, src, Len(src))
MemCpy(dst, off, src) ==
    [i \in 1..Len(dst) |->
        IF i > off /\ i <= off + Len(src) THEN src[i - off] ELSE dst[i]]

RECURSIVE Power(_, _)
Power(b, e) == IF e = 0 THEN 1 ELSE b * Power(b, e - 1)

\* v as len big-endian bytes, zero-extended on the left
BigEndian(v, len) ==
    [i \in 1..len |-> (v \div Power(ByteBase, len - i)) % ByteBase]

RECURSIVE MpiScanRec(_, _)
MpiScanRec(buf, acc) ==
    IF buf = <<>> THEN acc
    ELSE MpiScanRec(Tail(buf), acc * ByteBase + Head(buf))

\* gcry_mpi_scan(&m, GCRYMPI_FMT_USG, buf, Len(buf), NULL): big-endian value
MpiScan(buf) == MpiScanRec(buf, 0)

RECURSIVE MpiBytes(_)
\* the value's minimal big-endian encoding: no leading zero byte, <<>> for 0
MpiBytes(v) ==
    IF v = 0 THEN <<>>
    ELSE Append(MpiBytes(v \div ByteBase), v % ByteBase)

\* the nwritten of gcry_mpi_print(GCRYMPI_FMT_USG, ...): (nbits + 7) / 8
MpiNBytes(v) == Len(MpiBytes(v))

\* gcry_mpi_print(GCRYMPI_FMT_USG, buf + off, len, &n, v): the n bytes of the
\* minimal encoding are copied to the start of the destination and the rest of
\* the destination is left as it was; GPG_ERR_TOO_SHORT, and no write, if n > len
MpiPrint(buf, off, len, v) ==
    IF MpiNBytes(v) > len THEN buf
    ELSE MemCpy(buf, off, MpiBytes(v))

-----------------------------------------------------------------------------
(* The curve (_aacs_curve_init) and the point arithmetic of ec.c *)

EC_p == 29
EC_a == 26
EC_b == 4
EC_n == 31
EC_G_x == 17
EC_G_y == 20

\* the point at infinity (z = 0); every other point is <<x, y>> with z = 1
Infinity == <<>>

EC_G == <<EC_G_x, EC_G_y>>

ModInv(x, m) == CHOOSE i \in 0..(m - 1) : (i * x) % m = 1 \/ (i = 0 /\ x % m = 0)

OnCurve(P) ==
    /\ P # Infinity
    /\ (P[2] * P[2]) % EC_p
         = (P[1] * P[1] * P[1] + EC_a * P[1] + EC_b) % EC_p

\* field subtraction x - y mod p
FSub(x, y) == ((x % EC_p) + EC_p - (y % EC_p)) % EC_p

\* _gcry_mpi_ec_dup_point
DupPoint(P) ==
    IF P = Infinity \/ P[2] % EC_p = 0 THEN Infinity
    ELSE LET l == ((3 * P[1] * P[1] + EC_a) * ModInv(2 * P[2], EC_p)) % EC_p
             x == FSub(FSub(l * l, P[1]), P[1])
             y == FSub(l * FSub(P[1], x), P[2])
         IN  <<x, y>>

\* _gcry_mpi_ec_add_points
AddPoints(P, Q) ==
    IF P = Infinity THEN Q
    ELSE IF Q = Infinity THEN P
    ELSE IF P[1] % EC_p = Q[1] % EC_p
         THEN IF P[2] % EC_p = Q[2] % EC_p THEN DupPoint(P) ELSE Infinity
    ELSE LET l == (FSub(Q[2], P[2]) * ModInv(FSub(Q[1], P[1]), EC_p)) % EC_p
             x == FSub(FSub(l * l, P[1]), Q[1])
             y == FSub(l * FSub(P[1], x), P[2])
         IN  <<x, y>>

RECURSIVE MulPoint(_, _)
\* _gcry_mpi_ec_mul_point: double-and-add from the scalar's top bit down, the
\* scalar used as it is (no reduction modulo n)
MulPoint(k, P) ==
    IF k = 0 THEN Infinity
    ELSE LET d == DupPoint(MulPoint(k \div 2, P))
         IN  IF k % 2 = 1 THEN AddPoints(d, P) ELSE d

\* _gcry_mpi_ec_get_affine(q_x, q_y, P, ctx): fails on the point at infinity
\* and then leaves q_x and q_y at the 0 they were created with (mpi_new(0))
GetAffine(P) == IF P = Infinity THEN <<0, 0>> ELSE P


-----------------------------------------------------------------------------
(* Backend primitives: SHA-1 and ECDSA over the curve (libgcrypt) *)

GPG_ERR_NO_ERROR == "GPG_ERR_NO_ERROR"
GPG_ERR_BAD_SIGNATURE == "GPG_ERR_BAD_SIGNATURE"
GPG_ERR_ENOMEM == "GPG_ERR_ENOMEM"

RECURSIVE Sha1Rec(_, _)
Sha1Rec(block, h) ==
    IF block = <<>> THEN h
    ELSE Sha1Rec(Tail(block), (h * 5 + Head(block) + 1) % (ByteBase * ByteBase))

\* gcry_md_hash_buffer(GCRY_MD_SHA1, md, block, len): a digest of CoordLen
\* bytes (a stand-in hash that depends on every byte and on the length)
Sha1(block) ==
    LET h == Sha1Rec(block, 7)
    IN  <<h \div ByteBase, h % ByteBase>>

\* the ECDSA acceptance test of gcry_pk_verify: r, s in 1..n-1 and the
\* x-coordinate of (e/s) G + (r/s) Q equal to r modulo n
EcdsaAccepts(r, s, e, Q) ==
    /\ r \in 1..(EC_n - 1)
    /\ s \in 1..(EC_n - 1)
    /\ LET w == ModInv(s, EC_n)
           X == AddPoints(MulPoint((e * w) % EC_n, EC_G),
                          MulPoint((r * w) % EC_n, Q))
       IN  X # Infinity /\ X[1] % EC_n = r

\* the ECDSA signature gcry_pk_sign computes with the per-signature secret k
EcdsaR(k) == GetAffine(MulPoint(k, EC_G))[1] % EC_n
EcdsaS(k, d, e) == (ModInv(k, EC_n) * (e + d * EcdsaR(k))) % EC_n

-----------------------------------------------------------------------------
(* S-expression builders.  fail names the build that the backend refuses   *)
(* in this call ("none": no build fails).                                  *)

NULL == <<>>

\* _aacs_sexp_key: the key object (q 04||Q.x||Q.y) and, with a private key, (d)
AacsSexpKey(q_x, q_y, priv_key, fail) ==
    [prim |-> "_aacs_sexp_key",
     err  |-> IF fail = "key" THEN GPG_ERR_ENOMEM ELSE GPG_ERR_NO_ERROR,
     obj  |-> [q |-> <<MpiScan(Bytes(q_x, 0, CoordLen)),
                       MpiScan(Bytes(q_y, 0, CoordLen))>>,
               d |-> IF priv_key = NULL THEN NULL
                     ELSE MpiScan(Bytes(priv_key, 0, CoordLen))]]

\* _aacs_sexp_sha1: the data object (value SHA-1(block))
AacsSexpSha1(block, fail) ==
    [prim |-> "_aacs_sexp_sha1",
     err  |-> IF fail = "sha1" THEN GPG_ERR_ENOMEM ELSE GPG_ERR_NO_ERROR,
     obj  |-> [value |-> MpiScan(Sha1(block))]]

\* _aacs_sexp_signature: the signature object (r, s) from r||s
AacsSexpSignature(sig, fail) ==
    [prim |-> "_aacs_sexp_signature",
     err  |-> IF fail = "sig" THEN GPG_ERR_ENOMEM ELSE GPG_ERR_NO_ERROR,
     obj  |-> [r |-> MpiScan(Bytes(sig, 0, CoordLen)),
               s |-> MpiScan(Bytes(sig, CoordLen, CoordLen))]]

\* gcry_pk_verify(sexp_sig, sexp_data, sexp_key)
PkVerify(sexp_sig, sexp_data, sexp_key) ==
    [prim |-> "gcry_pk_verify",
     err  |-> IF EcdsaAccepts(sexp_sig.r, sexp_sig.s, sexp_data.value, sexp_key.q)
              THEN GPG_ERR_NO_ERROR ELSE GPG_ERR_BAD_SIGNATURE,
     obj  |-> [sig |-> sexp_sig, data |-> sexp_data, key |-> sexp_key]]

\* the steps of a GCRY_VERIFY chain up to and including the first that fails
UpToError(steps) ==
    SubSeq(steps, 1,
           CHOOSE i \in 1..Len(steps) :
               /\ steps[i].err # GPG_ERR_NO_ERROR \/ i = Len(steps)
               /\ \A j \in 1..(i - 1) : steps[j].err = GPG_ERR_NO_ERROR)

\* the objects the steps made: the i-th step, when it succeeds, makes names[i]
Built(steps, names) ==
    {names[i] : i \in {j \in 1..Len(steps) :
                         j <= Len(names) /\ steps[j].err = GPG_ERR_NO_ERROR}}

-----------------------------------------------------------------------------
(* Certificates: type byte, reserved byte, 2-byte big-endian length, the    *)
(* public key Q.x || Q.y, the signature r || s over everything before it.   *)

CertTypeDrive == 1
CertTypeHost == 2
CertLengthExpected == 92
CertQxOff == 4
CertQyOff == 6
CertSigOff == 8

\* the licensing authority's public key
aacs_la_pubkey_x == <<1, 7>>
aacs_la_pubkey_y == <<1, 10>>

NoCall == [op |-> "none", args |-> <<>>, ret |-> "none", trace |-> <<>>, live |-> {}]

-----------------------------------------------------------------------------
(* Signature verification *)

\* the error: label without the release of the key object
VerifyReleased_KeyLeaked == {"sexp_sig", "sexp_data"}

\* the error: label of _aacs_verify
VerifyReleased == {"sexp_sig", "sexp_data", "sexp_key"}

\* _aacs_verify: err, the backend calls made, the objects still allocated
AacsVerify(sig, q_x, q_y, data, fail) ==
    With(UpToError(<<AacsSexpKey(q_x, q_y, NULL, fail),
                     AacsSexpSha1(data, fail),
                     AacsSexpSignature(sig, fail),
                     PkVerify(AacsSexpSignature(sig, fail).obj,
                              AacsSexpSha1(data, fail).obj,
                              AacsSexpKey(q_x, q_y, NULL, fail).obj)>>),
         LAMBDA done :
            [err   |-> done[Len(done)].err,
             trace |-> done,
             live  |-> Built(done, <<"sexp_key", "sexp_data", "sexp_sig">>)
                         \ VerifyReleased])

\* return 0 before any backend call
Return0 == [ret |-> 0, trace |-> <<>>, live |-> {}]

\* return !err
ReturnNot(v) ==
    [ret   |-> IF v.err = GPG_ERR_NO_ERROR THEN 1 ELSE 0,
     trace |-> v.trace,
     live  |-> v.live]

\* crypto_aacs_verify: the public key is the certificate's, at offsets 12 and 32
CryptoAacsVerify(cert, sig, data, fail) ==
    With(AacsVerify(sig, Bytes(cert, CertQxOff, CoordLen),
                    Bytes(cert, CertQyOff, CoordLen), data, fail),
         ReturnNot)

\* crypto_aacs_verify_aacsla: the public key is the licensing authority's
CryptoAacsVerifyAacsla(sig, data, fail) ==
    With(AacsVerify(sig, aacs_la_pubkey_x, aacs_la_pubkey_y, data, fail),
         ReturnNot)

\* MKINT_BE16(cert + 2)
CertLength(cert) == cert[3] * ByteBase + cert[4]

\* crypto_aacs_verify_cert without its length test
CryptoAacsVerifyCert_NoLengthTest(cert, fail) ==
    CryptoAacsVerifyAacsla(Bytes(cert, CertSigOff, 2 * CoordLen),
                           Bytes(cert, 0, CertSigOff), fail)

\* crypto_aacs_verify_cert
CryptoAacsVerifyCert(cert, fail) ==
    IF CertLength(cert) # CertLengthExpected THEN Return0
    ELSE CryptoAacsVerifyAacsla(Bytes(cert, CertSigOff, 2 * CoordLen),
                                Bytes(cert, 0, CertSigOff), fail)

\* crypto_aacs_verify_host_cert testing for the type its log message names
CryptoAacsVerifyHostCert_DriveType(cert, fail) ==
    IF cert[1] # CertTypeDrive THEN Return0
    ELSE [CryptoAacsVerifyCert(cert, fail) EXCEPT
             !.ret = IF @ = 0 THEN 0 ELSE 1]

\* crypto_aacs_verify_host_cert: 0 if the certificate check gives 0, else 1
CryptoAacsVerifyHostCert(cert, fail) ==
    IF cert[1] # CertTypeHost THEN Return0
    ELSE [CryptoAacsVerifyCert(cert, fail) EXCEPT
             !.ret = IF @ = 0 THEN 0 ELSE 1]

\* crypto_aacs_verify_drive_cert: 0 if the certificate check gives 0, else 1
CryptoAacsVerifyDriveCert(cert, fail) ==
    IF cert[1] # CertTypeDrive THEN Return0
    ELSE [CryptoAacsVerifyCert(cert, fail) EXCEPT
             !.ret = IF @ = 0 THEN 0 ELSE 1]

\* an entry point is called once on the inputs drawn and returns to its caller
Returns(name, result) ==
    \E r \in {result} :
        /\ op = NoCall.op
        /\ op' = name
        /\ ret' = r.ret
        /\ trace' = trace \o r.trace
        /\ live' = live \cup r.live
        /\ UNCHANGED <<args, initVars, bufVars>>

VerifyCert == Returns("crypto_aacs_verify_cert", CryptoAacsVerifyCert(args.cert, args.fail))

VerifyHostCert ==
    Returns("crypto_aacs_verify_host_cert", CryptoAacsVerifyHostCert(args.cert, args.fail))

VerifyDriveCert ==
    Returns("crypto_aacs_verify_drive_cert", CryptoAacsVerifyDriveCert(args.cert, args.fail))

\* crypto_aacs_verify_aacsla(cert + 52, cert, 52)
VerifyAacsla ==
    Returns("crypto_aacs_verify_aacsla",
            CryptoAacsVerifyAacsla(Bytes(args.cert, CertSigOff, 2 * CoordLen),
                                   Bytes(args.cert, 0, CertSigOff), args.fail))

\* crypto_aacs_verify(cert, cert + 52, cert, 52)
Verify ==
    Returns("crypto_aacs_verify",
            CryptoAacsVerify(args.cert, Bytes(args.cert, CertSigOff, 2 * CoordLen),
                             Bytes(args.cert, 0, CertSigOff), args.fail))

-----------------------------------------------------------------------------
(* Signing *)

\* gcry_pk_sign(&sexp_sig, sexp_data, sexp_key) with the per-signature secret k
PkSign(sexp_data, sexp_key, fail, k) ==
    [prim |-> "gcry_pk_sign",
     err  |-> IF fail = "sign" THEN GPG_ERR_ENOMEM ELSE GPG_ERR_NO_ERROR,
     obj  |-> [r |-> EcdsaR(k),
               s |-> EcdsaS(k, sexp_key.d, sexp_data.value)]]

\* the error: label of crypto_aacs_sign
SignReleased ==
    {"sexp_key", "sexp_data", "sexp_sig", "sexp_r", "sexp_s", "mpi_r", "mpi_s"}

\* what crypto_aacs_sign makes once gcry_pk_sign has succeeded
SignExtracted(done) ==
    IF Len(done) = 3 /\ done[3].err = GPG_ERR_NO_ERROR
    THEN {"sexp_r", "sexp_s", "mpi_r", "mpi_s"}
    ELSE {}

\* crypto_aacs_sign: a void function; r and s are printed into the two halves
\* of the caller's signature buffer
CryptoAacsSign(cert, priv_key, sigbuf, nonce, point, fail, k) ==
    With(UpToError(<<AacsSexpKey(Bytes(cert, CertQxOff, CoordLen),
                                 Bytes(cert, CertQyOff, CoordLen), priv_key, fail),
                     AacsSexpSha1(nonce \o point, fail),
                     PkSign(AacsSexpSha1(nonce \o point, fail).obj,
                            AacsSexpKey(Bytes(cert, CertQxOff, CoordLen),
                                        Bytes(cert, CertQyOff, CoordLen),
                                        priv_key, fail).obj,
                            fail, k)>>),
         LAMBDA done :
            [ret   |-> "void",
             trace |-> done,
             live  |-> (Built(done, <<"sexp_key", "sexp_data", "sexp_sig">>)
                          \cup SignExtracted(done)) \ SignReleased,
             signature |->
                 IF SignExtracted(done) = {} THEN sigbuf
                 ELSE MpiPrint(MpiPrint(sigbuf, 0, CoordLen, done[3].obj.r),
                               CoordLen, CoordLen, done[3].obj.s)])

\* crypto_aacs_sign(cert, priv_key, signature, nonce, point); the backend's
\* gcry_pk_sign settles on a secret k whose r and s are not 0
Sign ==
    /\ op = NoCall.op
    /\ EcdsaR(args.k) # 0
    /\ EcdsaS(args.k, MpiScan(args.priv_key),
              MpiScan(Sha1(args.nonce \o args.point))) # 0
    /\ \E r \in {CryptoAacsSign(args.cert, args.priv_key, signature, args.nonce,
                                args.point, args.fail, args.k)} :
        /\ op' = "crypto_aacs_sign"
        /\ ret' = r.ret
        /\ trace' = trace \o r.trace
        /\ live' = live \cup r.live
        /\ signature' = r.signature
    /\ UNCHANGED <<args, initVars, host_key, host_key_point, bus_key, subkeys,
                 cmac>>

\* crypto_aacs_verify(cert, signature, nonce || point, 60) on what Sign left
VerifySigned ==
    /\ op = "crypto_aacs_sign"
    /\ \E r \in {CryptoAacsVerify(args.cert, signature,
                                  args.nonce \o args.point, "none")} :
        /\ op' = "crypto_aacs_verify"
        /\ ret' = r.ret
        /\ trace' = trace \o r.trace
        /\ live' = live \cup r.live
    /\ UNCHANGED <<args, initVars, bufVars>>

-----------------------------------------------------------------------------
(* Key agreement *)

Parties == {1, 2}
Peer(i) == 3 - i

\* crypto_create_host_key_pair: host_key is filled with random bytes; its
\* public point's x and y are printed at offsets 0 and 20 of host_key_point
HostKeyPoint(random, pointbuf) ==
    With(GetAffine(MulPoint(MpiScan(random), EC_G)),
         LAMBDA q :
            MpiPrint(MpiPrint(pointbuf, 0, CoordLen, q[1]),
                     CoordLen, CoordLen, q[2]))

\* q_x_bin[k] for the C index k: inside the n bytes printed it is a byte of x,
\* below the array it is whatever the stack holds there (below[-k])
StackByte(xbytes, below, k) ==
    IF k < 0 THEN below[-k] ELSE xbytes[k + 1]

\* memcpy(bus_key, q_x_bin + n - 16, 16) after
\* gcry_mpi_print(GCRYMPI_FMT_USG, q_x_bin, sizeof(q_x_bin), &n, q_x)
BusKeyBytes(x, below) ==
    [i \in 1..BusKeyLen |->
        StackByte(MpiBytes(x), below, MpiNBytes(x) - BusKeyLen + (i - 1))]

\* crypto_create_bus_key: priv_key * (the peer's point with z = 1)
BusKeyPoint(priv_key, drive_key_point) ==
    MulPoint(MpiScan(Bytes(priv_key, 0, CoordLen)),
             <<MpiScan(Bytes(drive_key_point, 0, CoordLen)),
               MpiScan(Bytes(drive_key_point, CoordLen, CoordLen))>>)

\* its affine x (q_x)
BusKeyX(priv_key, drive_key_point) ==
    GetAffine(BusKeyPoint(priv_key, drive_key_point))[1]

CryptoCreateBusKey(priv_key, drive_key_point, below) ==
    BusKeyBytes(BusKeyX(priv_key, drive_key_point), below)

\* party i calls crypto_create_host_key_pair(host_key[i], host_key_point[i])
CreateHostKeyPair(i) ==
    /\ args.done = (IF i = 1 THEN {} ELSE {"pair1"})
    /\ \E d \in 0..MaxScalar :
        /\ host_key' = [host_key EXCEPT ![i] = BigEndian(d, CoordLen)]
        /\ host_key_point' =
              [host_key_point EXCEPT
                  ![i] = HostKeyPoint(BigEndian(d, CoordLen), host_key_point[i])]
    /\ args' = [args EXCEPT !.done = @ \cup {IF i = 1 THEN "pair1" ELSE "pair2"}]
    /\ op' = "crypto_create_host_key_pair"
    /\ ret' = "void"
    /\ UNCHANGED <<trace, live, initVars, signature, bus_key, subkeys, cmac>>

\* party i calls crypto_create_bus_key(host_key[i], the peer's point, bus_key[i])
CreateBusKey(i) ==
    /\ args.done = (IF i = 1 THEN {"pair1", "pair2"} ELSE {"pair1", "pair2", "bus1"})
    /\ \E below \in [1..BusKeyLen -> Byte] :
        /\ bus_key' =
              [bus_key EXCEPT
                  ![i] = CryptoCreateBusKey(host_key[i], host_key_point[Peer(i)], below)]
        /\ trace' = Append(trace,
              [prim |-> "memcpy",
               err  |-> GPG_ERR_NO_ERROR,
               obj  |-> [party |-> i,
                         first |-> MpiNBytes(BusKeyX(host_key[i],
                                                     host_key_point[Peer(i)]))
                                      - BusKeyLen]])
    /\ args' = [args EXCEPT !.done = @ \cup {IF i = 1 THEN "bus1" ELSE "bus2"}]
    /\ op' = "crypto_create_bus_key"
    /\ ret' = "void"
    /\ UNCHANGED <<live, initVars, signature, host_key, host_key_point, subkeys,
                 cmac>>

-----------------------------------------------------------------------------
(* AES-G3 (_aesg3, crypto_aesg3) on 8-bit bytes and 16-byte blocks.  The    *)
(* block cipher of the backend (gcry_cipher, AES-128 in ECB mode) is a      *)
(* keyed permutation of blocks given by its two directions.                 *)

AesByteBase == 256
AesBlockLen == 16
AesByte == 0..(AesByteBase - 1)

\* a ^ b on bytes
RECURSIVE Xor(_, _)
Xor(a, b) ==
    IF a = 0 THEN b
    ELSE IF b = 0 THEN a
    ELSE ((a + b) % 2) + 2 * Xor(a \div 2, b \div 2)

\* byte substitution of the block cipher and its inverse
SubByte(x) == (x * 5 + 99) % AesByteBase
InvSubByte(y) == ((y + AesByteBase - 99) * 205) % AesByteBase

\* position i of the ciphertext takes the byte at position ShiftPos(i)
ShiftPos(i) == (i % AesBlockLen) + 1
InvShiftPos(i) == ((i + AesBlockLen - 2) % AesBlockLen) + 1

\* gcry_cipher_encrypt of one block under key (ECB)
AesEncrypt(key, in) ==
    [i \in 1..AesBlockLen |-> SubByte(Xor(in[ShiftPos(i)], key[i]))]

\* gcry_cipher_decrypt of one block under key (ECB)
AesDecrypt(key, in) ==
    [i \in 1..AesBlockLen |->
        Xor(InvSubByte(in[InvShiftPos(i)]), key[InvShiftPos(i)])]

\* uint8_t seed[16] of _aesg3
seed == <<123, 16, 60, 93, 203, 8, 196, 229, 26, 39, 176, 23, 153, 5, 59, 217>>

\* seed[15] += inc;
SeedInc(inc) ==
    [seed EXCEPT ![AesBlockLen] = (@ + inc) % AesByteBase]

\* _aesg3: the contents of dst_key when it returns
Aesg3(src_key, dst_key, inc) ==
    With(SeedInc(inc), LAMBDA sd :
        With(AesDecrypt(src_key, sd), LAMBDA dec :
            [a \in 1..AesBlockLen |-> Xor(dec[a], sd[a])]))

\* one call of _aesg3 on the buffer named dst of the memory mem; st is the
\* memory and the backend calls so far
Aesg3Call(st, dst, inc) ==
    [mem   |-> [st.mem EXCEPT ![dst] = Aesg3(st.mem.D, st.mem[dst], inc)],
     trace |-> Append(st.trace,
                      [prim |-> "gcry_cipher_decrypt",
                       err |-> GPG_ERR_NO_ERROR,
                       obj |-> [dst |-> dst, inc |-> inc]])]

\* crypto_aesg3 with pk and rsubk given each other's increment
CryptoAesg3_SwappedInc(mem, req) ==
    With([mem |-> mem, trace |-> <<>>], LAMBDA s0 :
      With(IF "lsubk" \in req THEN Aesg3Call(s0, "lsubk", 0) ELSE s0, LAMBDA s1 :
        With(IF "pk" \in req THEN Aesg3Call(s1, "pk", 2) ELSE s1, LAMBDA s2 :
          IF "rsubk" \in req THEN Aesg3Call(s2, "rsubk", 1) ELSE s2)))

\* crypto_aesg3(D, lsubk, rsubk, pk); req holds the destinations that are
\* not NULL
CryptoAesg3(mem, req) ==
    With([mem |-> mem, trace |-> <<>>], LAMBDA s0 :
      With(IF "lsubk" \in req THEN Aesg3Call(s0, "lsubk", 0) ELSE s0, LAMBDA s1 :
        With(IF "pk" \in req THEN Aesg3Call(s1, "pk", 1) ELSE s1, LAMBDA s2 :
          IF "rsubk" \in req THEN Aesg3Call(s2, "rsubk", 2) ELSE s2)))

Destinations == {"lsubk", "pk", "rsubk"}

\* a call of crypto_aesg3 on the caller's buffers
Aesg3Op ==
    \E req \in SUBSET Destinations :
        \E r \in {CryptoAesg3(subkeys, req)} :
            /\ op = NoCall.op
            /\ op' = "crypto_aesg3"
            /\ args' = [D |-> subkeys.D, req |-> req, before |-> subkeys]
            /\ ret' = "void"
            /\ subkeys' = r.mem
            /\ trace' = trace \o r.trace
            /\ UNCHANGED <<live, initVars, signature, host_key,
                           host_key_point, bus_key, cmac>>

-----------------------------------------------------------------------------
(* AES CMAC of one 16-byte block (_shl_128, _cmac_key, crypto_aes_cmac_16)  *)

\* a | b on bytes
RECURSIVE Or(_, _)
Or(a, b) ==
    IF a = 0 THEN b
    ELSE IF b = 0 THEN a
    ELSE (IF a % 2 = 1 \/ b % 2 = 1 THEN 1 ELSE 0) + 2 * Or(a \div 2, b \div 2)

\* a & b on bytes
RECURSIVE And(_, _)
And(a, b) ==
    IF a = 0 \/ b = 0 THEN 0
    ELSE (IF a % 2 = 1 /\ b % 2 = 1 THEN 1 ELSE 0) + 2 * And(a \div 2, b \div 2)

\* 0x87 of _cmac_key and the 0x80 it tests
CmacRb == 135
CmacMsb == 128

\* the loop of _shl_128 from the C index i down to 0
RECURSIVE Shl128Loop(_, _, _, _)
Shl128Loop(dst, src, overflow, i) ==
    IF i < 0 THEN dst
    ELSE Shl128Loop(
            [dst EXCEPT ![i + 1] = Or(src[i + 1] * 2, overflow) % AesByteBase],
            src, src[i + 1] \div CmacMsb, i - 1)

\* _shl_128(dst, src): the contents of dst when it returns
Shl128(dst, src) == Shl128Loop(dst, src, 0, AesBlockLen - 1)

\* if (key[0] & 0x80) k[15] ^= 0x87;
CmacReduce(k, from) ==
    IF And(from[1], CmacMsb) # 0
    THEN [k EXCEPT ![AesBlockLen] = Xor(@, CmacRb)]
    ELSE k

\* uint8_t key[16] = {0, ...} of _cmac_key
ZeroBlock == [i \in 1..AesBlockLen |-> 0]

\* _cmac_key without the two tests of the top bit
CmacKey_NoReduction(aes_key, k1, k2) ==
    With(AesEncrypt(aes_key, ZeroBlock), LAMBDA key :
        With(Shl128(k1, key), LAMBDA new1 :
            [key |-> key, k1 |-> new1, k2 |-> Shl128(k2, new1)]))

\* _cmac_key(aes_key, k1, k2): the encrypted zero block and the contents of
\* k1 and k2 when it returns
CmacKey(aes_key, k1, k2) ==
    With(AesEncrypt(aes_key, ZeroBlock), LAMBDA key :
        With(CmacReduce(Shl128(k1, key), key), LAMBDA new1 :
            [key |-> key,
             k1  |-> new1,
             k2  |-> CmacReduce(Shl128(k2, new1), new1)]))

\* crypto_aes_cmac_16(data, aes_key, cmac); k1 and k2 are its locals as the
\* stack holds them at entry
CryptoAesCmac16(data, aes_key, k1, k2) ==
    With(CmacKey(aes_key, k1, k2), LAMBDA keys :
        With([ii \in 1..AesBlockLen |-> Xor(data[ii], keys.k1[ii])], LAMBDA blk :
            [cmac  |-> AesEncrypt(aes_key, blk),
             trace |-> <<[prim |-> "_cmac_key",
                          err  |-> GPG_ERR_NO_ERROR,
                          obj  |-> keys],
                         [prim |-> "gcry_cipher_encrypt",
                          err  |-> GPG_ERR_NO_ERROR,
                          obj  |-> blk]>>]))

\* a call of crypto_aes_cmac_16 on the caller's buffers
AesCmac16 ==
    \E stack1, stack2 \in {0, AesByteBase - 1} :
        \E r \in {CryptoAesCmac16(args.data, args.aes_key,
                                 [i \in 1..AesBlockLen |-> stack1],
                                 [i \in 1..AesBlockLen |-> stack2])} :
        /\ op = NoCall.op
        /\ op' = "crypto_aes_cmac_16"
        /\ ret' = "void"
        /\ cmac' = r.cmac
        /\ trace' = trace \o r.trace
        /\ UNCHANGED <<args, live, initVars, signature, host_key,
                       host_key_point, bus_key, subkeys>>

-----------------------------------------------------------------------------
(* crypto_init: one action per statement, so that threads interleave       *)
(* between the test of the static flag and its assignment.                 *)

\* call entry; the next statement is the test of the flag
InitCall(t) ==
    /\ pc[t] = "idle"
    /\ ncalls[t] < MaxCalls
    /\ pc' = [pc EXCEPT ![t] = "test"]
    /\ ncalls' = [ncalls EXCEPT ![t] = @ + 1]
    /\ UNCHANGED <<crypto_init_check, versionOk, retval, setupRuns>>

\* if (!crypto_init_check)
InitTest(t) ==
    /\ pc[t] = "test"
    /\ pc' = [pc EXCEPT ![t] = IF crypto_init_check = 0 THEN "set" ELSE "ret"]
    /\ UNCHANGED <<crypto_init_check, versionOk, ncalls, retval, setupRuns>>

\* crypto_init_check = 1;
InitSet(t) ==
    /\ pc[t] = "set"
    /\ crypto_init_check' = 1
    /\ pc' = [pc EXCEPT ![t] = "cbs"]
    /\ UNCHANGED <<versionOk, ncalls, retval, setupRuns>>

\* gcry_control(GCRYCTL_SET_THREAD_CBS, ...): the setup section starts
InitThreadCbs(t) ==
    /\ pc[t] = "cbs"
    /\ setupRuns' = setupRuns + 1
    /\ pc' = [pc EXCEPT ![t] = "ver"]
    /\ UNCHANGED <<crypto_init_check, versionOk, ncalls, retval>>

\* if (!gcry_check_version(GCRYPT_VERSION)) crypto_init_check = 0;
InitCheckVersion(t) ==
    /\ pc[t] = "ver"
    /\ crypto_init_check' = IF versionOk THEN crypto_init_check ELSE 0
    /\ pc' = [pc EXCEPT ![t] = "ret"]
    /\ UNCHANGED <<versionOk, ncalls, retval, setupRuns>>

\* return crypto_init_check;
InitReturn(t) ==
    /\ pc[t] = "ret"
    /\ retval' = [retval EXCEPT ![t] = crypto_init_check]
    /\ pc' = [pc EXCEPT ![t] = "idle"]
    /\ UNCHANGED <<crypto_init_check, versionOk, ncalls, setupRuns>>

\* a thread is inside the setup section (callbacks, version check)
InSetup(t) == pc[t] \in {"cbs", "ver"}

-----------------------------------------------------------------------------
(* Values of the variables an operation does not use *)

CallIdle ==
    /\ op = NoCall.op
    /\ args = NoCall.args
    /\ ret = NoCall.ret
    /\ trace = NoCall.trace
    /\ live = NoCall.live

BuffersUnused ==
    /\ signature = <<>>
    /\ host_key = <<>>
    /\ host_key_point = <<>>
    /\ bus_key = <<>>
    /\ subkeys = <<>>
    /\ cmac = <<>>

InitUnused ==
    /\ crypto_init_check = 0
    /\ versionOk = TRUE
    /\ pc = [t \in Threads |-> "idle"]
    /\ ncalls = [t \in Threads |-> 0]
    /\ retval = [t \in Threads |-> -1]
    /\ setupRuns = 0

-----------------------------------------------------------------------------
(* Specification of crypto_init called from several threads *)

StartInit ==
    /\ crypto_init_check = 0
    /\ versionOk \in BOOLEAN
    /\ pc = [t \in Threads |-> "idle"]
    /\ ncalls = [t \in Threads |-> 0]
    /\ retval = [t \in Threads |-> -1]
    /\ setupRuns = 0
    /\ CallIdle
    /\ BuffersUnused

NextInit ==
    \E t \in Threads :
        /\ \/ InitCall(t)
           \/ InitTest(t)
           \/ InitSet(t)
           \/ InitThreadCbs(t)
           \/ InitCheckVersion(t)
           \/ InitReturn(t)
        /\ UNCHANGED <<callVars, bufVars>>

SpecInit == StartInit /\ [][NextInit]_vars

\* C1: the backend setup (thread callbacks and version check) is executed at
\* most once per process, whatever the number of crypto_init calls and however
\* the callers interleave, and two callers are never inside it together.
C1_SetupOnce ==
    /\ setupRuns <= 1
    /\ Cardinality({t \in Threads : InSetup(t)}) <= 1

-----------------------------------------------------------------------------
(* Specification of the verification entry points, each called on a        *)
(* certificate drawn from Certs with one backend build possibly refused    *)

CertTypes == {CertTypeDrive, CertTypeHost, 3}
CertLenFields == {<<5, 12>>, <<12, 5>>, <<5, 13>>}
CertKeys == {<<1, 12, 0, 8>>}
VerifyFails == {"none", "key", "sha1", "sig"}

Certs ==
    {<<t, 0>> \o len \o key \o BigEndian(r, CoordLen) \o BigEndian(s, CoordLen) :
        t \in CertTypes, len \in CertLenFields, key \in CertKeys,
        r \in 0..EC_n, s \in 0..MaxSigS}

StartVerify ==
    /\ args \in [cert : Certs, fail : VerifyFails]
    /\ op = NoCall.op
    /\ ret = NoCall.ret
    /\ trace = NoCall.trace
    /\ live = NoCall.live
    /\ InitUnused
    /\ BuffersUnused

NextVerify ==
    \/ VerifyCert
    \/ VerifyHostCert
    \/ VerifyDriveCert
    \/ VerifyAacsla
    \/ Verify

SpecVerify == StartVerify /\ [][NextVerify]_vars

CertOps ==
    {"crypto_aacs_verify_cert", "crypto_aacs_verify_host_cert",
     "crypto_aacs_verify_drive_cert"}

TypeOk(name, cert) ==
    /\ name = "crypto_aacs_verify_host_cert" => cert[1] = 2
    /\ name = "crypto_aacs_verify_drive_cert" => cert[1] = 1

LengthOk(cert) == MpiScan(Bytes(cert, 2, 2)) = 92

\* the signature at the certificate's signature offset, as (r, s)
CertSig(cert) ==
    [r |-> MpiScan(Bytes(cert, CertSigOff, CoordLen)),
     s |-> MpiScan(Bytes(cert, CertSigOff + CoordLen, CoordLen))]

\* the digest of the certificate's bytes before the signature
CertDigest(cert) == MpiScan(Sha1(Bytes(cert, 0, CertSigOff)))

LaKey == <<MpiScan(aacs_la_pubkey_x), MpiScan(aacs_la_pubkey_y)>>

CertKey(cert) ==
    <<MpiScan(Bytes(cert, CertQxOff, CoordLen)),
      MpiScan(Bytes(cert, CertQyOff, CoordLen))>>

\* the ECDSA verify primitive ran on exactly (sig, digest, key) and accepted
VerifiedWith(sig, digest, key) ==
    \E i \in 1..Len(trace) :
        /\ trace[i].prim = "gcry_pk_verify"
        /\ trace[i].err = GPG_ERR_NO_ERROR
        /\ trace[i].obj.sig = sig
        /\ trace[i].obj.data.value = digest
        /\ trace[i].obj.key.q = key

PkVerifyCalls == {i \in 1..Len(trace) : trace[i].prim = "gcry_pk_verify"}

\* C2: a certificate whose type byte is not the expected one, or whose length
\* field is not 0x005c, is rejected (0) and no backend call, so no signature
\* verification, is made for it.
C2_FormatRejectedUnverified ==
    (op \in CertOps /\ ~(TypeOk(op, args.cert) /\ LengthOk(args.cert)))
        => (ret = 0 /\ trace = <<>>)

\* a host-certificate check of a drive-type certificate that carries a good
\* length and a signature the licensing authority's key accepts
C2_Witness ==
    /\ op = "crypto_aacs_verify_host_cert"
    /\ args.cert[1] = 1
    /\ LengthOk(args.cert)
    /\ args.fail = "none"
    /\ EcdsaAccepts(CertSig(args.cert).r, CertSig(args.cert).s,
                    CertDigest(args.cert), LaKey)
    /\ ret = 0
    /\ trace = <<>>

\* C3: a certificate check returns 1 exactly when the type byte is the expected
\* one (host 0x02, drive 0x01, any for crypto_aacs_verify_cert), the length
\* field is 0x005c and the ECDSA verification of the signature at the signature
\* offset over the bytes before it, under the licensing authority's key, accepts.
C3_CertAcceptedIff ==
    op \in CertOps =>
        /\ ret \in {0, 1}
        /\ ret = 1 <=>
              /\ TypeOk(op, args.cert)
              /\ LengthOk(args.cert)
              /\ VerifiedWith(CertSig(args.cert), CertDigest(args.cert), LaKey)

C3_Witness ==
    /\ op = "crypto_aacs_verify_drive_cert"
    /\ ret = 1
    /\ PkVerifyCalls # {}

\* C5: crypto_aacs_verify and crypto_aacs_verify_aacsla return 1 exactly when
\* the key, digest and signature objects were all built and the ECDSA verify
\* accepted; a refused build gives 0, ends the chain there, and nothing that
\* was built stays allocated.
C5_VerifyChain ==
    op \in {"crypto_aacs_verify", "crypto_aacs_verify_aacsla"} =>
        /\ ret \in {0, 1}
        /\ Len(trace) \in 1..4
        /\ [i \in 1..Len(trace) |-> trace[i].prim]
             = SubSeq(<<"_aacs_sexp_key", "_aacs_sexp_sha1",
                        "_aacs_sexp_signature", "gcry_pk_verify">>, 1, Len(trace))
        /\ \A i \in 1..(Len(trace) - 1) : trace[i].err = GPG_ERR_NO_ERROR
        /\ ret = 1 <=> (Len(trace) = 4 /\ trace[4].err = GPG_ERR_NO_ERROR)
        /\ args.fail = "key" => (ret = 0 /\ Len(trace) = 1)
        /\ args.fail = "sha1" => (ret = 0 /\ Len(trace) = 2)
        /\ args.fail = "sig" => (ret = 0 /\ Len(trace) = 3)
        /\ args.fail = "none" => Len(trace) = 4
        /\ live = {}

\* the signature object is refused for a signature the certificate's own key
\* would have accepted
C5_Witness ==
    /\ op = "crypto_aacs_verify"
    /\ args.fail = "sig"
    /\ EcdsaAccepts(CertSig(args.cert).r, CertSig(args.cert).s,
                    CertDigest(args.cert), CertKey(args.cert))
    /\ ret = 0
    /\ Len(trace) = 3
    /\ live = {}

-----------------------------------------------------------------------------
(* Specification of signing with a host key pair and verifying the result  *)

JunkBytes == {0, 15}
Nonces == {<<0, 0>>, <<10, 7>>}
SignFails == {"none", "key", "sha1", "sign"}

\* the public point d G of private scalar d as x || y, CoordLen bytes each
PublicPoint(d) ==
    BigEndian(GetAffine(MulPoint(d, EC_G))[1], CoordLen)
        \o BigEndian(GetAffine(MulPoint(d, EC_G))[2], CoordLen)

\* a host certificate carrying the public point of d
HostCert(d) ==
    <<CertTypeHost, 0, 5, 12>> \o PublicPoint(d) \o <<0, 0, 0, 0>>

StartSign ==
    /\ \E d \in 1..(EC_n - 1), nonce \in Nonces, k \in 1..(EC_n - 1),
          fail \in SignFails :
          args = [cert |-> HostCert(d), priv_key |-> BigEndian(d, CoordLen),
                  nonce |-> nonce, point |-> PublicPoint(d), k |-> k,
                  fail |-> fail]
    /\ \E j \in JunkBytes : signature = [i \in 1..(2 * CoordLen) |-> j]
    /\ op = NoCall.op
    /\ ret = NoCall.ret
    /\ trace = NoCall.trace
    /\ live = NoCall.live
    /\ InitUnused
    /\ host_key = <<>>
    /\ host_key_point = <<>>
    /\ bus_key = <<>>
    /\ subkeys = <<>>
    /\ cmac = <<>>

NextSign ==
    \/ Sign
    \/ VerifySigned

SpecSign == StartSign /\ [][NextSign]_vars

\* gcry_pk_sign was called and reported an error / no error
SignSteps == {i \in 1..Len(trace) : trace[i].prim = "gcry_pk_sign"}
Signed == \E i \in SignSteps : trace[i].err = GPG_ERR_NO_ERROR
SignFailed ==
    /\ op = "crypto_aacs_sign"
    /\ \E i \in 1..Len(trace) : trace[i].err # GPG_ERR_NO_ERROR

\* C4: when a step of crypto_aacs_sign fails, the caller is handed an error
\* value (something other than what a successful call hands it), the signature
\* buffer is as it was, and no intermediate object stays allocated.
C4_SignFailureReported ==
    SignFailed =>
        /\ ret # "void"
        /\ \E j \in JunkBytes : signature = [i \in 1..(2 * CoordLen) |-> j]
        /\ live = {}

\* C6: a signature written by crypto_aacs_sign for a host key pair (d, Q = d G)
\* is accepted by crypto_aacs_verify under Q over nonce || Q.
C6_SignVerifyRoundTrip ==
    (op = "crypto_aacs_verify" /\ Signed) => ret = 1

-----------------------------------------------------------------------------
(* Specification of two parties that each create a key pair and then derive *)
(* the bus key from their own private key and the other's public point      *)

StartKeys ==
    /\ args = [done |-> {}]
    /\ \E j \in JunkBytes :
        /\ host_key = [i \in Parties |-> [b \in 1..CoordLen |-> j]]
        /\ host_key_point = [i \in Parties |-> [b \in 1..(2 * CoordLen) |-> j]]
        /\ bus_key = [i \in Parties |-> [b \in 1..BusKeyLen |-> j]]
    /\ op = NoCall.op
    /\ ret = NoCall.ret
    /\ trace = NoCall.trace
    /\ live = NoCall.live
    /\ InitUnused
    /\ signature = <<>>
    /\ subkeys = <<>>
    /\ cmac = <<>>

NextKeys ==
    \E i \in Parties :
        \/ CreateHostKeyPair(i)
        \/ CreateBusKey(i)

SpecKeys == StartKeys /\ [][NextKeys]_vars

\* the point of party i as the peer reads it from host_key_point[i]
PointRead(i) ==
    <<MpiScan(Bytes(host_key_point[i], 0, CoordLen)),
      MpiScan(Bytes(host_key_point[i], CoordLen, CoordLen))>>

PairDone(i) == (IF i = 1 THEN "pair1" ELSE "pair2") \in args.done
BusDone(i) == (IF i = 1 THEN "bus1" ELSE "bus2") \in args.done

\* C7: whenever d G has an affine form, the public point written by
\* crypto_create_host_key_pair, read as two 20-byte big-endian integers, is
\* the affine form of d G for the scalar d written to host_key.
C7_PublicIsPrivateTimesG ==
    \A i \in Parties :
        (PairDone(i) /\ MulPoint(MpiScan(host_key[i]), EC_G) # Infinity)
            => PointRead(i) = MulPoint(MpiScan(host_key[i]), EC_G)

\* C8: whenever priv_key * peer point has an affine form, the bus key is the
\* low 128 bits of its x-coordinate as a 16-byte big-endian value (x
\* zero-extended on the left when it is shorter), and the copy that fills the
\* bus key starts inside the encoded x.
C8_BusKeyIsLowBitsOfX ==
    \A i \in Parties :
        (BusDone(i) /\ BusKeyPoint(host_key[i], host_key_point[Peer(i)]) # Infinity)
        =>  /\ bus_key[i] =
                 BigEndian(BusKeyX(host_key[i], host_key_point[Peer(i)])
                              % Power(ByteBase, BusKeyLen), BusKeyLen)
            /\ \A k \in 1..Len(trace) :
                 (trace[k].prim = "memcpy" /\ trace[k].obj.party = i)
                     => trace[k].obj.first >= 0

\* C9: two parties whose key pairs (d, d G) came from
\* crypto_create_host_key_pair derive the same bus key from their own private
\* key and the other's public point as crypto_create_host_key_pair wrote it.
C9_BusKeySymmetry ==
    (/\ BusDone(1)
     /\ BusDone(2)
     /\ \A i \in Parties : MulPoint(MpiScan(host_key[i]), EC_G) # Infinity)
        => bus_key[1] = bus_key[2]

-----------------------------------------------------------------------------
(* Specification of one call of crypto_aesg3 on a key, any subset of the    *)
(* three destinations, and destination buffers with earlier contents        *)

MaxKeyStep == 3
KeyOffsets == {0, 200}
AesKeys ==
    {[i \in 1..AesBlockLen |-> (m * i + c) % AesByteBase] :
        m \in 0..MaxKeyStep, c \in KeyOffsets}
AesJunk == {0, 255}

StartAes ==
    /\ \E K \in AesKeys, j \in AesJunk :
        subkeys = [D     |-> K,
                   lsubk |-> [i \in 1..AesBlockLen |-> j],
                   pk    |-> [i \in 1..AesBlockLen |-> j],
                   rsubk |-> [i \in 1..AesBlockLen |-> j]]
    /\ CallIdle
    /\ InitUnused
    /\ signature = <<>>
    /\ host_key = <<>>
    /\ host_key_point = <<>>
    /\ bus_key = <<>>
    /\ cmac = <<>>

NextAes == Aesg3Op

SpecAes == StartAes /\ [][NextAes]_vars

\* the increment of each output: 0 left subkey, 1 processing key, 2 right subkey
IncOf(dst) == IF dst = "lsubk" THEN 0 ELSE IF dst = "pk" THEN 1 ELSE 2

\* the seed constant with its last byte increased by inc modulo 256
SeedPlus(inc) ==
    [i \in 1..AesBlockLen |->
        IF i = AesBlockLen THEN (seed[i] + inc) % AesByteBase ELSE seed[i]]

\* AES128-ECB-decrypt(K, seed') XOR seed'
Diversified(K, inc) ==
    [i \in 1..AesBlockLen |->
        Xor(AesDecrypt(K, SeedPlus(inc))[i], SeedPlus(inc)[i])]

\* C10: after crypto_aesg3, every requested output is
\* AES-decrypt(K, seed') XOR seed' for the seed with its last byte increased
\* by the output's increment (0 left, 1 processing key, 2 right); an output
\* that is not requested keeps its contents and no decryption is run for it;
\* the key is unchanged.
C10_Aesg3Outputs ==
    op = "crypto_aesg3" =>
        /\ \A dst \in args.req :
             subkeys[dst] = Diversified(args.D, IncOf(dst))
        /\ \A dst \in Destinations \ args.req :
             subkeys[dst] = args.before[dst]
        /\ subkeys.D = args.D
        /\ Len(trace) = Cardinality(args.req)
        /\ {trace[k].obj.dst : k \in 1..Len(trace)} = args.req

\* a call that asks for the two subkeys and not for the processing key:
\* the subkeys are written and differ, the processing key buffer is as before
C10_Witness ==
    /\ op = "crypto_aesg3"
    /\ args.req = {"lsubk", "rsubk"}
    /\ subkeys.lsubk # args.before.lsubk
    /\ subkeys.rsubk # args.before.rsubk
    /\ subkeys.lsubk # subkeys.rsubk
    /\ subkeys.pk = args.before.pk
    /\ AesEncrypt(args.D, [i \in 1..AesBlockLen |->
                              Xor(subkeys.rsubk[i], SeedPlus(2)[i])])
           = SeedPlus(2)

-----------------------------------------------------------------------------
(* Specification of one call of crypto_aes_cmac_16 on a data block, a key   *)
(* and an output buffer with earlier contents                               *)

CmacKeyOffsets == {0, 10, 200}
CmacKeys ==
    {[i \in 1..AesBlockLen |-> (m * i + c) % AesByteBase] :
        m \in 0..MaxKeyStep, c \in CmacKeyOffsets}
CmacData ==
    {[i \in 1..AesBlockLen |-> (m * i + c) % AesByteBase] :
        m \in {0, 17}, c \in {0, 255}}

StartCmac ==
    /\ \E data \in CmacData, K \in CmacKeys :
        args = [data |-> data, aes_key |-> K]
    /\ \E j \in AesJunk : cmac = [i \in 1..AesBlockLen |-> j]
    /\ op = NoCall.op
    /\ ret = NoCall.ret
    /\ trace = NoCall.trace
    /\ live = NoCall.live
    /\ InitUnused
    /\ signature = <<>>
    /\ host_key = <<>>
    /\ host_key_point = <<>>
    /\ bus_key = <<>>
    /\ subkeys = <<>>

NextCmac == AesCmac16

SpecCmac == StartCmac /\ [][NextCmac]_vars

CmacBits == 8 * AesBlockLen

\* a block as the bits of a 128-bit big-endian integer, most significant first
BitsOf(block) ==
    [j \in 1..CmacBits |->
        (block[((j - 1) \div 8) + 1] \div Power(2, 7 - ((j - 1) % 8))) % 2]

\* the block of a 128-bit integer given by its bits
BlockOf(bits) ==
    [i \in 1..AesBlockLen |->
        LET b(k) == bits[8 * (i - 1) + k]
        IN  128 * b(1) + 64 * b(2) + 32 * b(3) + 16 * b(4)
              + 8 * b(5) + 4 * b(6) + 2 * b(7) + b(8)]

\* 2 v mod 2^128 on the bits of v
DoubleBits(bits) ==
    [j \in 1..CmacBits |-> IF j < CmacBits THEN bits[j + 1] ELSE 0]

\* v XOR 0x87 on the bits of v
XorRbBits(bits) ==
    [j \in 1..CmacBits |->
        IF j \in {CmacBits - 7, CmacBits - 2, CmacBits - 1, CmacBits}
        THEN 1 - bits[j] ELSE bits[j]]

\* K1 of the block L
SubkeyK1(L) ==
    BlockOf(IF BitsOf(L)[1] = 1
            THEN XorRbBits(DoubleBits(BitsOf(L)))
            ELSE DoubleBits(BitsOf(L)))

\* AES128-ECB-encrypt(key, data XOR K1) with L = AES128-ECB-encrypt(key, 0)
Cmac16(data, key) ==
    AesEncrypt(key,
        [i \in 1..AesBlockLen |->
            Xor(data[i], SubkeyK1(AesEncrypt(key, ZeroBlock))[i])])

\* C11: crypto_aes_cmac_16 writes AES-encrypt(key, data XOR K1), where
\* L = AES-encrypt(key, 0) and K1 as a 128-bit big-endian integer is
\* 2 L mod 2^128, XORed with 0x87 when the top bit of L is set; whatever k1
\* and k2 held before and whatever k2 becomes does not enter the result.
C11_CmacIsEncryptedXorK1 ==
    op = "crypto_aes_cmac_16" => cmac = Cmac16(args.data, args.aes_key)

\* a call whose L has its top bit set and a byte further down with its top
\* bit set, so that the shift carries between bytes and the 0x87 is applied
C11_Witness ==
    /\ op = "crypto_aes_cmac_16"
    /\ trace[1].obj.key[1] >= CmacMsb
    /\ \E i \in 2..AesBlockLen :
        /\ trace[1].obj.key[i] >= CmacMsb
        /\ trace[1].obj.k1[i - 1] % 2 = 1
    /\ trace[1].obj.k1[AesBlockLen] % 2 = 1
    /\ cmac # AesEncrypt(args.aes_key, args.data)

=============================================================================
